---- MODULE Spec2Model ----
(***************************************************************************)
(* A model of the exercises of the Go-Testing repository:                  *)
(*   - CheckWebsites  (concurrency/goroutine_test.go): fan-out / fan-in    *)
(*   - Counter        (sync/sync_test.go): a mutex and an integer          *)
(*   - Racer          (concurrency, select with a timeout)                 *)
(*   - Countdown      (mocking/main.go and its earlier version)            *)
(*   - Dictionary     (Search, Add, Update, Delete on a map)               *)
(*   - Wallet         (Deposit, Withdraw, Balance on an int)               *)
(*   - walk           (reflection/reflection_test.go)                      *)
(* Each exercise is an independent program with its own variables and its  *)
(* own specification; a specification leaves the other programs' variables *)
(* at their initial values.                                                *)
(***************************************************************************)
EXTENDS Integers, Sequences, FiniteSets, TLC

\* ------------------------------------------------------------------ bounds
\* the longest urls slice handed to CheckWebsites
MaxUrls == 3
\* the goroutines that use one Counter
NumGoroutines == 3
\* the calls of Inc made on one Counter
MaxInc == 3
\* the longest delay of a test server, in seconds
MaxDelay == 1
\* the longest timeout handed to ConfigurableRacer directly, in seconds
MaxTimeout == 2
\* the longest duration of a ConfigurableSleeper, in seconds
MaxDuration == 5
\* the bits of an int, scaled down from the 64 of the machine
IntBits == 5
\* the most fields of a struct, elements of a slice or an array, keys of a map
MaxFields == 2
\* the most values the goroutine sends on the channel
MaxSends == 2
\* the greatest capacity of the channel
MaxCap == 1
\* the longest slice handed to SumAllTails
MaxNums == 2
\* the most slices handed to one call of SumAllTails
MaxSlices == 2

\* ------------------------------------------------------- CheckWebsites: state
VARIABLES
    urls,          \* the urls argument ([]string)
    wc,            \* the WebsiteChecker argument: a function of its argument only
    results,       \* the results map (map[string]bool) of the caller
    url,           \* the range loop's variable
    i,             \* the loop index of the running loop (1-based)
    r,             \* the receive loop's r (a result{string, bool})
    cwPC,          \* where the goroutine that called CheckWebsites stands
    wPC,           \* per worker goroutine: where it stands
    u,             \* per worker goroutine: its parameter u
    wSend,         \* per worker goroutine: the result{u, wc(u)} it sends
    wcCalls,       \* spy on wc: how many times it was invoked per argument
    nRecv          \* how many receives from resultChannel have completed

cwVars == <<urls, wc, results, url, i, r, cwPC, wPC, u, wSend, wcCalls, nRecv>>

\* ------------------------------------------------------------- Counter: state
VARIABLES
    mu,            \* Counter.mu: 0 when unlocked, else the goroutine holding it
    value,         \* Counter.value
    cPC,           \* per goroutine: where it stands in Inc or Value
    tmp,           \* per goroutine: the value read by c.value++ before it writes
    got,           \* per goroutine: what its last Value() returned
    incStarted,    \* calls of Inc made so far
    incReturned    \* calls of Inc that have returned

ctrVars == <<mu, value, cPC, tmp, got, incStarted, incReturned>>

\* --------------------------------------------------------------- Racer: state
VARIABLES
    a, b,          \* the URLs raced
    timeout,       \* the timeout argument of ConfigurableRacer, in seconds
    winner, err,   \* the results of ConfigurableRacer
    rPC,           \* where the goroutine that called the racer stands
    viaRacer,      \* whether the call came through Racer
    pingA, pingB,  \* the goroutine and channel of ping(a) and of ping(b)
    timer,         \* the timer and channel of time.After(timeout)
    first,         \* which request completed first: "a", "b" or "none"
    fired,         \* the case the select has taken: "a", "b", "timeout" or "none"
    serverDelay,   \* per URL: the delay of the server behind it, in seconds
    now            \* the clock, in seconds

raceVars == <<a, b, timeout, winner, err, rPC, viaRacer, pingA, pingB, timer,
              first, fired, serverDelay, now>>

\* ----------------------------------------------------------- Countdown: state
VARIABLES
    cdPC,            \* where Countdown stands
    count,           \* the loop variable i of Countdown
    version,         \* "mocking" (mocking/main.go) or "DI" (the earlier Countdown)
    outKind,         \* the writer handed in: "buffer" or "spy"
    sleeperKind,     \* the Sleeper handed in
    buffer,          \* the contents of the bytes.Buffer
    Calls,           \* SpyCountDownOperations.Calls
    spySleeperCalls, \* SpySleeper.Calls
    duration,        \* ConfigurableSleeper.duration, in seconds
    sleepFn,         \* ConfigurableSleeper.sleep: "time.Sleep" or "SpyTime.Sleep"
    durationSlept,   \* SpyTime.durationSlept, in seconds
    slept,           \* the seconds spent in time.Sleep
    ops              \* the calls Countdown made on out and on sleeper, in order

cdVars == <<cdPC, count, version, outKind, sleeperKind, buffer, Calls,
            spySleeperCalls, duration, sleepFn, durationSlept, slept, ops>>

\* ---------------------------------------------------------- Dictionary: state
VARIABLES
    dict,            \* the entries of the Dictionary d, a map from words to definitions
    dictNil,         \* TRUE when d is the nil map, the zero value of Dictionary
    dictOp,          \* the last method called on d, "none" before the first call
    word,            \* the word argument of the last call
    definition,      \* the definition argument of the last call, "" when it has none
    dictGot,         \* the string the last call returned, "" when it returns none
    dictErr,         \* the error the last call returned, or panic
    dictPrev         \* the entries of d when the last call was made

dictVars == <<dict, dictNil, dictOp, word, definition, dictGot, dictErr, dictPrev>>

\* -------------------------------------------------------------- Wallet: state
VARIABLES
    balance,         \* Wallet.balance
    walletOp,        \* the last method called on the Wallet, or the literal that made it
    amount,          \* the amount argument of the last call, 0 when it has none
    walletGot,       \* the Bitcoin the last call returned, 0 when it returns none
    walletErr,       \* the error the last call of Withdraw returned
    balancePrev      \* Wallet.balance when the last call was made

walletVars == <<balance, walletOp, amount, walletGot, walletErr, balancePrev>>

\* ---------------------------------------------------------------- walk: state
VARIABLES
    input,           \* the x that walk is called with by the test
    walkStack,       \* the calls of walk in progress, the innermost last
    walkGot,         \* got: the strings fn has been called with, in order
    walkPC           \* "idle", "running", "done" or "panic"

walkVars == <<input, walkStack, walkGot, walkPC>>

\* ------------------------------------------------- walk on a channel: state
VARIABLES
    chanCap,         \* the capacity aChannel was made with
    chanBuf,         \* the values in the buffer of aChannel, the oldest first
    chanClosed,      \* close(aChannel) has been executed
    toSend,          \* the values the sending goroutine sends, in order
    sendIdx,         \* the number of sends the goroutine has completed
    willClose        \* the goroutine ends with close(aChannel)

chanVars == <<chanCap, chanBuf, chanClosed, toSend, sendIdx, willClose>>

\* --------------------------------------------------------- SumAllTails: state
VARIABLES
    numsToSum,       \* the slices SumAllTails is called with
    sums,            \* var sums []int
    satPC,           \* "idle", "loop" or "done"
    satIdx,          \* the number of slices the range loop has been through
    indexed          \* the positions in numsToSum of the slices whose numbers[0] was read

satVars == <<numsToSum, sums, satPC, satIdx, indexed>>

vars == <<cwVars, ctrVars, raceVars, cdVars, dictVars, walletVars,
         walkVars, chanVars, satVars>>

\* the URLs of TestCheckWebsites that the checker tells apart
Websites == {"http://google.com", "waat://furhurterwe.geds"}

mockWebsiteChecker == [x \in Websites |-> x /= "waat://furhurterwe.geds"]

\* the checkers: any function of the URL alone (mockWebsiteChecker is one)
WebsiteChecker == [Websites -> BOOLEAN]

UrlLists == UNION {[1..n -> Websites] : n \in 0..MaxUrls}

Workers == 1..Len(urls)

\* the zero value of a result struct
ZeroResult == <<"", FALSE>>

CWIdle ==
    /\ urls = <<>>
    /\ wc = mockWebsiteChecker
    /\ results = [x \in {} |-> FALSE]
    /\ url = ""
    /\ i = 1
    /\ r = ZeroResult
    /\ cwPC = "returned"
    /\ wPC = <<>>
    /\ u = <<>>
    /\ wSend = <<>>
    /\ wcCalls = [x \in Websites |-> 0]
    /\ nRecv = 0

\* CheckWebsites(wc, urls) has been called: results and resultChannel are made
CWInit ==
    /\ urls \in UrlLists
    /\ wc \in WebsiteChecker
    /\ results = [x \in {} |-> FALSE]
    /\ url = ""
    /\ i = 1
    /\ r = ZeroResult
    /\ cwPC = "spawn"
    /\ wPC = [k \in Workers |-> "none"]
    /\ u = [k \in Workers |-> ""]
    /\ wSend = [k \in Workers |-> ZeroResult]
    /\ wcCalls = [x \in Websites |-> 0]
    /\ nRecv = 0

CWFrame == UNCHANGED <<ctrVars, raceVars, cdVars, dictVars, walletVars,
    walkVars, chanVars, satVars>>

\* the number of workers that have been started and have not completed their send
Live == Cardinality({k \in Workers : wPC[k] \in {"start", "inwc", "send"}})

\* a bug: a range over urls[1:], which starts no worker for the first element
SpawnWorkerSkipFirst ==
    /\ cwPC = "spawn"
    /\ i <= Len(urls)
    /\ url' = urls[i]
    /\ u' = IF i = 1 THEN u ELSE [u EXCEPT ![i] = urls[i]]
    /\ wPC' = IF i = 1 THEN wPC ELSE [wPC EXCEPT ![i] = "start"]
    /\ i' = i + 1
    /\ UNCHANGED <<urls, wc, results, r, cwPC, wSend, wcCalls, nRecv>>
    /\ CWFrame

\* a bug: a pool of two, the loop waits while two workers are live
SpawnWorkerBounded ==
    /\ cwPC = "spawn"
    /\ i <= Len(urls)
    /\ Live < 2
    /\ url' = urls[i]
    /\ u' = [u EXCEPT ![i] = urls[i]]
    /\ wPC' = [wPC EXCEPT ![i] = "start"]
    /\ i' = i + 1
    /\ UNCHANGED <<urls, wc, results, r, cwPC, wSend, wcCalls, nRecv>>
    /\ CWFrame

\* for _, url := range urls { go func(u string) {...}(url) }: one iteration.
\* The go statement evaluates the argument url now and never waits.
SpawnWorker ==
    /\ cwPC = "spawn"
    /\ i <= Len(urls)
    /\ url' = urls[i]
    /\ u' = [u EXCEPT ![i] = urls[i]]
    /\ wPC' = [wPC EXCEPT ![i] = "start"]
    /\ i' = i + 1
    /\ UNCHANGED <<urls, wc, results, r, cwPC, wSend, wcCalls, nRecv>>
    /\ CWFrame

\* the range loop is over; the receive loop starts with i := 0
SpawnDone ==
    /\ cwPC = "spawn"
    /\ i > Len(urls)
    /\ cwPC' = "recv"
    /\ i' = 1
    /\ UNCHANGED <<urls, wc, results, url, r, wPC, u, wSend, wcCalls, nRecv>>
    /\ CWFrame

\* a bug (Tdocumentation.md, "Closures and Goroutines"): the closure reads the
\* loop's one variable url instead of a parameter of its own
ClosureOverUrl(k) == url

\* the argument a worker hands to wc: its own parameter u
WorkerArg(k) == u[k]

\* worker k enters wc(u)
WorkerCall(k) ==
    /\ wPC[k] = "start"
    /\ wcCalls' = [wcCalls EXCEPT ![WorkerArg(k)] = @ + 1]
    /\ wSend' = [wSend EXCEPT ![k] = <<WorkerArg(k), FALSE>>]
    /\ wPC' = [wPC EXCEPT ![k] = "inwc"]
    /\ UNCHANGED <<urls, wc, results, url, i, r, cwPC, u, nRecv>>
    /\ CWFrame

\* a bug (Tdocumentation.md, "Solution"): the worker writes results[u] = wc(u)
\* itself
WorkerWritesMap(k) ==
    /\ wPC[k] = "inwc"
    /\ wSend' = [wSend EXCEPT ![k] = <<wSend[k][1], wc[wSend[k][1]]>>]
    /\ results' = [x \in DOMAIN results \cup {wSend[k][1]} |->
                      IF x = wSend[k][1] THEN wc[x] ELSE results[x]]
    /\ wPC' = [wPC EXCEPT ![k] = "send"]
    /\ UNCHANGED <<urls, wc, url, i, r, cwPC, u, wcCalls, nRecv>>
    /\ CWFrame

\* wc(u) returns; the worker holds result{u, wc(u)} and blocks on the send
WorkerReturn(k) ==
    /\ wPC[k] = "inwc"
    /\ wSend' = [wSend EXCEPT ![k] = <<wSend[k][1], wc[wSend[k][1]]>>]
    /\ wPC' = [wPC EXCEPT ![k] = "send"]
    /\ UNCHANGED <<urls, wc, results, url, i, r, cwPC, u, wcCalls, nRecv>>
    /\ CWFrame

\* a bug: i < len(urls)-1, one receive too few
RecvLoopCondOneLess == i < Len(urls)

\* a bug: i <= len(urls), one receive too many
RecvLoopCondOneMore == i <= Len(urls) + 1

\* i < len(urls), 1-based
RecvLoopCond == i <= Len(urls)

\* r := <-resultChannel: the channel is unbuffered, so a send of worker k and
\* the receive happen together
Receive(k) ==
    /\ cwPC = "recv"
    /\ RecvLoopCond
    /\ wPC[k] = "send"
    /\ r' = wSend[k]
    /\ wPC' = [wPC EXCEPT ![k] = "done"]
    /\ nRecv' = nRecv + 1
    /\ cwPC' = "store"
    /\ UNCHANGED <<urls, wc, results, url, i, u, wSend, wcCalls>>
    /\ CWFrame

\* results[r.string] = r.bool; i++
Store ==
    /\ cwPC = "store"
    /\ results' = [x \in DOMAIN results \cup {r[1]} |->
                      IF x = r[1] THEN r[2] ELSE results[x]]
    /\ i' = i + 1
    /\ cwPC' = "recv"
    /\ UNCHANGED <<urls, wc, url, r, wPC, u, wSend, wcCalls, nRecv>>
    /\ CWFrame

\* return results
CheckWebsitesReturn ==
    /\ cwPC = "recv"
    /\ ~RecvLoopCond
    /\ cwPC' = "returned"
    /\ UNCHANGED <<urls, wc, results, url, i, r, wPC, u, wSend, wcCalls, nRecv>>
    /\ CWFrame

\* --------------------------------------------------------- Counter: operations
Goroutines == 1..NumGoroutines

\* NewCounter(): &Counter{}, the zero value: an unlocked mutex and 0
NewCounter ==
    /\ mu = 0
    /\ value = 0
    /\ cPC = [g \in Goroutines |-> "idle"]
    /\ tmp = [g \in Goroutines |-> 0]
    /\ got = [g \in Goroutines |-> 0]
    /\ incStarted = 0
    /\ incReturned = 0

CtrFrame == UNCHANGED <<cwVars, raceVars, cdVars, dictVars, walletVars,
    walkVars, chanVars, satVars>>

\* goroutine g calls c.Inc()
IncCall(g) ==
    /\ cPC[g] = "idle"
    /\ incStarted < MaxInc
    /\ incStarted' = incStarted + 1
    /\ cPC' = [cPC EXCEPT ![g] = "lock"]
    /\ UNCHANGED <<mu, value, tmp, got, incReturned>>
    /\ CtrFrame

\* a bug: Inc without the mutex (the Lock does not wait)
LockNoWait(g) ==
    /\ cPC[g] = "lock"
    /\ mu' = g
    /\ cPC' = [cPC EXCEPT ![g] = "read"]
    /\ UNCHANGED <<value, tmp, got, incStarted, incReturned>>
    /\ CtrFrame

\* c.mu.Lock(): blocks while another goroutine holds the mutex
Lock(g) ==
    /\ cPC[g] = "lock"
    /\ mu = 0
    /\ mu' = g
    /\ cPC' = [cPC EXCEPT ![g] = "read"]
    /\ UNCHANGED <<value, tmp, got, incStarted, incReturned>>
    /\ CtrFrame

\* c.value++ is a read ...
IncRead(g) ==
    /\ cPC[g] = "read"
    /\ tmp' = [tmp EXCEPT ![g] = value]
    /\ cPC' = [cPC EXCEPT ![g] = "write"]
    /\ UNCHANGED <<mu, value, got, incStarted, incReturned>>
    /\ CtrFrame

\* ... followed by a write
IncWrite(g) ==
    /\ cPC[g] = "write"
    /\ value' = tmp[g] + 1
    /\ cPC' = [cPC EXCEPT ![g] = "unlock"]
    /\ UNCHANGED <<mu, tmp, got, incStarted, incReturned>>
    /\ CtrFrame

\* a bug: Inc returns without the deferred Unlock
ReturnLocked(g) ==
    /\ cPC[g] = "unlock"
    /\ incReturned' = incReturned + 1
    /\ cPC' = [cPC EXCEPT ![g] = "idle"]
    /\ UNCHANGED <<mu, value, tmp, got, incStarted>>
    /\ CtrFrame

\* the deferred c.mu.Unlock() runs and Inc returns
Unlock(g) ==
    /\ cPC[g] = "unlock"
    /\ mu' = 0
    /\ incReturned' = incReturned + 1
    /\ cPC' = [cPC EXCEPT ![g] = "idle"]
    /\ UNCHANGED <<value, tmp, got, incStarted>>
    /\ CtrFrame

\* goroutine g calls c.Value(): no Lock is taken
ValueCall(g) ==
    /\ cPC[g] = "idle"
    /\ cPC' = [cPC EXCEPT ![g] = "value"]
    /\ UNCHANGED <<mu, value, tmp, got, incStarted, incReturned>>
    /\ CtrFrame

\* return c.value
Value == value

ValueReturn(g) ==
    /\ cPC[g] = "value"
    /\ got' = [got EXCEPT ![g] = Value]
    /\ cPC' = [cPC EXCEPT ![g] = "idle"]
    /\ UNCHANGED <<mu, value, tmp, incStarted, incReturned>>
    /\ CtrFrame

Counter ==
    \/ \E g \in Goroutines : IncCall(g)
    \/ \E g \in Goroutines : Lock(g)
    \/ \E g \in Goroutines : IncRead(g)
    \/ \E g \in Goroutines : IncWrite(g)
    \/ \E g \in Goroutines : Unlock(g)
    \/ \E g \in Goroutines : ValueCall(g)
    \/ \E g \in Goroutines : ValueReturn(g)

\* ----------------------------------------------------------- Racer: operations
tenSecondTimeout == 10

RaceUrls == {"slowURL", "fastURL"}

NoChannel == [st |-> "none", ready |-> 0, done |-> 0]

\* makeDelayedServer(delay) for each URL; no call has been made yet
RaceInit ==
    /\ serverDelay \in [RaceUrls -> 0..MaxDelay]
    /\ a = ""
    /\ b = ""
    /\ timeout = 0
    /\ winner = ""
    /\ err = "nil"
    /\ rPC = "idle"
    /\ viaRacer = FALSE
    /\ pingA = NoChannel
    /\ pingB = NoChannel
    /\ timer = NoChannel
    /\ first = "none"
    /\ fired = "none"
    /\ now = 0

RaceIdle ==
    /\ serverDelay = [x \in RaceUrls |-> 0]
    /\ a = ""
    /\ b = ""
    /\ timeout = 0
    /\ winner = ""
    /\ err = "nil"
    /\ rPC = "idle"
    /\ viaRacer = FALSE
    /\ pingA = NoChannel
    /\ pingB = NoChannel
    /\ timer = NoChannel
    /\ first = "none"
    /\ fired = "none"
    /\ now = 0

RaceFrame == UNCHANGED <<cwVars, ctrVars, cdVars, dictVars, walletVars,
    walkVars, chanVars, satVars>>

\* ConfigurableRacer(x, y, t) is called
ConfigurableRacer(x, y, t) ==
    /\ rPC = "idle"
    /\ a' = x
    /\ b' = y
    /\ timeout' = t
    /\ rPC' = "ping_a"
    /\ UNCHANGED <<winner, err, viaRacer, pingA, pingB, timer, first, fired,
                   serverDelay, now>>
    /\ RaceFrame

\* Racer(x, y): return ConfigurableRacer(x, y, tenSecondTimeout)
Racer(x, y) ==
    /\ rPC = "idle"
    /\ a' = x
    /\ b' = y
    /\ timeout' = tenSecondTimeout
    /\ viaRacer' = TRUE
    /\ rPC' = "ping_a"
    /\ UNCHANGED <<winner, err, pingA, pingB, timer, first, fired, serverDelay, now>>
    /\ RaceFrame

\* ping(x): makes the channel and starts the goroutine of http.Get(x), whose
\* response is there serverDelay[x] from now at the earliest
ping(x) == [st |-> "running", ready |-> now + serverDelay[x], done |-> 0]

\* the select evaluates its channel operands in source order: ping(a) ...
EvalPingA ==
    /\ rPC = "ping_a"
    /\ pingA' = ping(a)
    /\ rPC' = "ping_b"
    /\ UNCHANGED <<a, b, timeout, winner, err, viaRacer, pingB, timer, first, fired,
                   serverDelay, now>>
    /\ RaceFrame

\* ... then ping(b) ...
EvalPingB ==
    /\ rPC = "ping_b"
    /\ pingB' = ping(b)
    /\ rPC' = "after"
    /\ UNCHANGED <<a, b, timeout, winner, err, viaRacer, pingA, timer, first, fired,
                   serverDelay, now>>
    /\ RaceFrame

\* ... then time.After(timeout); only then does the select look at its cases
EvalAfter ==
    /\ rPC = "after"
    /\ timer' = [st |-> "running", ready |-> now + timeout, done |-> 0]
    /\ rPC' = "select"
    /\ UNCHANGED <<a, b, timeout, winner, err, viaRacer, pingA, pingB, first, fired,
                   serverDelay, now>>
    /\ RaceFrame

\* A select that found no case ready is parked on its channels; the operation
\* that makes a channel ready hands its case c to the parked select.
Wake(c) ==
    /\ rPC' = IF rPC = "parked" THEN "chosen" ELSE rPC
    /\ fired' = IF rPC = "parked" THEN c ELSE fired

\* http.Get(a) has returned in ping's goroutine: close(ch)
CloseA ==
    /\ pingA.st = "running"
    /\ now >= pingA.ready
    /\ pingA' = [pingA EXCEPT !.st = "closed", !.done = now]
    /\ first' = IF first = "none" THEN "a" ELSE first
    /\ Wake("a")
    /\ UNCHANGED <<a, b, timeout, winner, err, viaRacer, pingB, timer, serverDelay, now>>
    /\ RaceFrame

CloseB ==
    /\ pingB.st = "running"
    /\ now >= pingB.ready
    /\ pingB' = [pingB EXCEPT !.st = "closed", !.done = now]
    /\ first' = IF first = "none" THEN "b" ELSE first
    /\ Wake("b")
    /\ UNCHANGED <<a, b, timeout, winner, err, viaRacer, pingA, timer, serverDelay, now>>
    /\ RaceFrame

\* the timer of time.After sends on its channel once timeout has elapsed
TimerFire ==
    /\ timer.st = "running"
    /\ now >= timer.ready
    /\ timer' = [timer EXCEPT !.st = "fired", !.done = now]
    /\ Wake("timeout")
    /\ UNCHANGED <<a, b, timeout, winner, err, viaRacer, pingA, pingB, first,
                   serverDelay, now>>
    /\ RaceFrame

\* whether the channel of case c can be received from
Ready(c) ==
    \/ c = "a" /\ pingA.st = "closed"
    \/ c = "b" /\ pingB.st = "closed"
    \/ c = "timeout" /\ timer.st = "fired"

Cases == {"a", "b", "timeout"}

\* The select looks at its cases: of those that are ready it takes one (Go picks
\* among several ready cases at random) ...
SelectPoll(c) ==
    /\ rPC = "select"
    /\ Ready(c)
    /\ fired' = c
    /\ rPC' = "chosen"
    /\ UNCHANGED <<a, b, timeout, winner, err, viaRacer, pingA, pingB, timer, first,
                   serverDelay, now>>
    /\ RaceFrame

\* ... and with none ready it blocks
SelectPark ==
    /\ rPC = "select"
    /\ \A c \in Cases : ~Ready(c)
    /\ rPC' = "parked"
    /\ UNCHANGED <<a, b, timeout, winner, err, viaRacer, pingA, pingB, timer, first,
                   fired, serverDelay, now>>
    /\ RaceFrame

\* fmt.Errorf("timed out waiting for %s and %s", a, b)
TimedOut(x, y) == "timed out waiting for " \o x \o " and " \o y

\* case <-ping(a): return a, nil
ReturnA == winner' = a /\ err' = "nil"

\* a bug: the second case returns the first URL
ReturnBAsA == winner' = a /\ err' = "nil"

\* case <-ping(b): return b, nil
ReturnB == winner' = b /\ err' = "nil"

\* a bug: the timeout case returns no error
ReturnTimeoutNoError == winner' = "" /\ err' = "nil"

\* case <-time.After(timeout): return "", fmt.Errorf(...)
ReturnTimeout == winner' = "" /\ err' = TimedOut(a, b)

\* the body of the case taken runs
SelectReturn ==
    /\ rPC = "chosen"
    /\ \/ fired = "a" /\ ReturnA
       \/ fired = "b" /\ ReturnB
       \/ fired = "timeout" /\ ReturnTimeout
    /\ rPC' = "returned"
    /\ UNCHANGED <<a, b, timeout, viaRacer, pingA, pingB, timer, first, fired,
                   serverDelay, now>>
    /\ RaceFrame

\* the moments still ahead at which a response or the timer falls due
Deadlines ==
    {x.ready : x \in {y \in {pingA, pingB, timer} : y.st = "running" /\ y.ready > now}}

\* Time passes.  Nothing of the call depends on the clock between two due
\* moments, so the clock moves from one to the next; a goroutine may still take
\* its step at any later moment.
Tick ==
    /\ Deadlines /= {}
    /\ now' = CHOOSE d \in Deadlines : \A e \in Deadlines : d <= e
    /\ UNCHANGED <<a, b, timeout, winner, err, rPC, viaRacer, pingA, pingB, timer,
                   first, fired, serverDelay>>
    /\ RaceFrame

Race ==
    \/ \E x, y \in RaceUrls : Racer(x, y)
    \/ \E x, y \in RaceUrls : \E t \in 1..MaxTimeout : ConfigurableRacer(x, y, t)
    \/ EvalPingA
    \/ EvalPingB
    \/ EvalAfter
    \/ CloseA
    \/ CloseB
    \/ TimerFire
    \/ \E c \in Cases : SelectPoll(c)
    \/ SelectPark
    \/ SelectReturn
    \/ Tick

\* ------------------------------------------------------- Countdown: operations
finalWord == "Go!"
countdownStart == 3

write == "write"
sleep == "sleep"

\* no Countdown has been called: an empty buffer, fresh spies
CdInit ==
    /\ cdPC = "idle"
    /\ count = 0
    /\ version = "mocking"
    /\ outKind = "buffer"
    /\ sleeperKind = "DefaultSleeper"
    /\ buffer = ""
    /\ Calls = <<>>
    /\ spySleeperCalls = 0
    /\ duration = 0
    /\ sleepFn = "time.Sleep"
    /\ durationSlept = 0
    /\ slept = 0
    /\ ops = <<>>

CdFrame == UNCHANGED <<cwVars, ctrVars, raceVars, dictVars, walletVars,
    walkVars, chanVars, satVars>>

\* the writers and sleepers each version of Countdown is run with
Setups ==
    {[v |-> "DI", w |-> "buffer", s |-> k, d |-> 0, f |-> "time.Sleep"] :
        k \in {"SpySleeper", "DefaultSleeper"}}
    \cup
    {[v |-> "mocking", w |-> x, s |-> k, d |-> 0, f |-> "time.Sleep"] :
        x \in {"buffer", "spy"}, k \in {"SpyCountDownOperations", "DefaultSleeper"}}
    \cup
    {[v |-> "mocking", w |-> x, s |-> "ConfigurableSleeper", d |-> n, f |-> fn] :
        x \in {"buffer", "spy"}, n \in 1..MaxDuration,
        fn \in {"time.Sleep", "SpyTime.Sleep"}}

\* Countdown(out, sleeper) is called: i := countdownStart
CountdownCall(c) ==
    /\ cdPC = "idle"
    /\ version' = c.v
    /\ outKind' = c.w
    /\ sleeperKind' = c.s
    /\ duration' = c.d
    /\ sleepFn' = c.f
    /\ count' = countdownStart
    /\ cdPC' = "loop"
    /\ UNCHANGED <<buffer, Calls, spySleeperCalls, durationSlept, slept, ops>>
    /\ CdFrame

Digits == <<"0", "1", "2", "3", "4", "5", "6", "7", "8", "9">>

\* the verb %d (and Fprintln's default format) of a non-negative int
RECURSIVE Itoa(_)
Itoa(n) == IF n < 10 THEN Digits[n + 1] ELSE Itoa(n \div 10) \o Digits[(n % 10) + 1]

\* a bug: the format "%d\n\t" of the earlier Countdown, kept in mocking/main.go
LineTabbed(n) == Itoa(n) \o "\n\t"

\* fmt.Fprintln(out, i) in mocking/main.go; fmt.Fprintf(out, "%d\n\t", i) before
Line(n) == IF version = "mocking" THEN Itoa(n) \o "\n" ELSE Itoa(n) \o "\n\t"

\* one call of out.Write(p): bytes.Buffer appends p; SpyCountDownOperations
\* records the call and drops p
Write(p) ==
    /\ buffer' = IF outKind = "buffer" THEN buffer \o p ELSE buffer
    /\ Calls' = IF outKind = "spy" THEN Append(Calls, write) ELSE Calls
    /\ ops' = Append(ops, write)

\* a bug: one iteration too many
LoopCondInclusive == count >= 0

\* i > 0
LoopCond == count > 0

\* fmt.Fprintln(out, i)
CountdownPrint ==
    /\ cdPC = "loop"
    /\ LoopCond
    /\ Write(Line(count))
    /\ cdPC' = "sleep"
    /\ UNCHANGED <<count, version, outKind, sleeperKind, spySleeperCalls,
                   duration, sleepFn, durationSlept, slept>>
    /\ CdFrame

\* sleeper.Sleep() of each Sleeper, then i--
Sleep ==
    /\ cdPC = "sleep"
    /\ Calls' = IF sleeperKind = "SpyCountDownOperations"
                 THEN Append(Calls, sleep) ELSE Calls
    /\ spySleeperCalls' = IF sleeperKind = "SpySleeper"
                           THEN spySleeperCalls + 1 ELSE spySleeperCalls
    /\ slept' = IF sleeperKind = "DefaultSleeper" THEN slept + 1
                ELSE IF sleeperKind = "ConfigurableSleeper" /\ sleepFn = "time.Sleep"
                     THEN slept + duration
                ELSE slept
    /\ durationSlept' = IF sleeperKind = "ConfigurableSleeper" /\ sleepFn = "SpyTime.Sleep"
                         THEN duration ELSE durationSlept
    /\ ops' = Append(ops, sleep)
    /\ count' = count - 1
    /\ cdPC' = "loop"
    /\ UNCHANGED <<version, outKind, sleeperKind, buffer, duration, sleepFn>>
    /\ CdFrame

\* fmt.Fprint(out, finalWord), and Countdown returns
CountdownFinal ==
    /\ cdPC = "loop"
    /\ ~LoopCond
    /\ Write(finalWord)
    /\ cdPC' = "done"
    /\ UNCHANGED <<count, version, outKind, sleeperKind, spySleeperCalls,
                   duration, sleepFn, durationSlept, slept>>
    /\ CdFrame

Countdown ==
    \/ \E c \in Setups : CountdownCall(c)
    \/ CountdownPrint
    \/ Sleep
    \/ CountdownFinal

\* ------------------------------------------------------ Dictionary: operations
ErrWordExists == "cannot add word because it already exists"
ErrNotFound == "could not find the word you are looking for"
ErrWordDoesNotExists == "cannot update word because it does not exist"

\* the nil error
nil == "nil"
\* a write to an entry of the nil map: the runtime panics
panic == "panic: assignment to entry in nil map"

\* the words and the definitions of the tests, and the empty definition
Words == {"test", "unknown"}
Definitions == {"", "this is just a test", "new test"}

\* the map without entries
NoEntries == [w \in {} |-> ""]

\* every Dictionary over Words: a literal, or the nil map of a bare declaration
Dictionaries ==
    UNION {[ws -> Definitions] : ws \in SUBSET Words}

DictFrame == UNCHANGED <<cwVars, ctrVars, raceVars, cdVars, walletVars,
    walkVars, chanVars, satVars>>

\* a Dictionary nobody has called yet
DictInit ==
    /\ dictNil \in BOOLEAN
    /\ dict \in (IF dictNil THEN {NoEntries} ELSE Dictionaries)
    /\ dictOp = "none"
    /\ word = ""
    /\ definition = ""
    /\ dictGot = ""
    /\ dictErr = nil
    /\ dictPrev = dict

\* the Dictionary of a specification that does not use it
DictIdle ==
    /\ dictNil = FALSE
    /\ dict = NoEntries
    /\ dictOp = "none"
    /\ word = ""
    /\ definition = ""
    /\ dictGot = ""
    /\ dictErr = nil
    /\ dictPrev = dict

SearchNilError(d, w) ==
    <<IF w \in DOMAIN d THEN d[w] ELSE "", nil>>

\* definition, ok := d[word]: what Search returns, <<definition, error>>
Search(d, w) ==
    IF w \in DOMAIN d THEN <<d[w], nil>> ELSE <<"", ErrNotFound>>

\* d[word] = definition
MapAssign(d, w, def) ==
    [x \in DOMAIN d \cup {w} |-> IF x = w THEN def ELSE d[x]]

deleteAll(d, w) ==
    IF w \in DOMAIN d THEN NoEntries ELSE d

\* delete(d, word)
delete(d, w) ==
    [x \in DOMAIN d \ {w} |-> d[x]]

\* a method is called on d and runs to its return
Called(name, w, def) ==
    /\ dictErr # panic
    /\ dictOp' = name
    /\ word' = w
    /\ definition' = def
    /\ dictPrev' = dict
    /\ UNCHANGED dictNil
    /\ DictFrame

\* d.Search(word)
DictSearch(w) ==
    /\ Called("Search", w, "")
    /\ dictGot' = Search(dict, w)[1]
    /\ dictErr' = Search(dict, w)[2]
    /\ UNCHANGED dict

AddOverwrites(w, def) ==
    /\ Called("Add", w, def)
    /\ dictGot' = ""
    /\ IF dictNil
       THEN dictErr' = panic /\ UNCHANGED dict
       ELSE dictErr' = nil /\ dict' = MapAssign(dict, w, def)

\* d.Add(word, definition)
Add(w, def) ==
    /\ Called("Add", w, def)
    /\ dictGot' = ""
    /\ LET e == Search(dict, w)[2] IN
         IF e = ErrNotFound
         THEN IF dictNil
              THEN dictErr' = panic /\ UNCHANGED dict
              ELSE dictErr' = nil /\ dict' = MapAssign(dict, w, def)
         ELSE IF e = nil
              THEN dictErr' = ErrWordExists /\ UNCHANGED dict
              ELSE dictErr' = e /\ UNCHANGED dict

UpdateInserts(w, def) ==
    /\ Called("Update", w, def)
    /\ dictGot' = ""
    /\ IF dictNil
       THEN dictErr' = panic /\ UNCHANGED dict
       ELSE dictErr' = nil /\ dict' = MapAssign(dict, w, def)

\* d.Update(word, definition)
Update(w, def) ==
    /\ Called("Update", w, def)
    /\ dictGot' = ""
    /\ LET e == Search(dict, w)[2] IN
         IF e = ErrNotFound
         THEN dictErr' = ErrWordDoesNotExists /\ UNCHANGED dict
         ELSE IF e = nil
              THEN dictErr' = nil /\ dict' = MapAssign(dict, w, def)
              ELSE dictErr' = e /\ UNCHANGED dict

\* d.Delete(word)
Delete(w) ==
    /\ Called("Delete", w, "")
    /\ dictGot' = ""
    /\ dictErr' = nil
    /\ dict' = delete(dict, w)

Dictionary ==
    \/ \E w \in Words : DictSearch(w)
    \/ \E w \in Words, def \in Definitions : Add(w, def)
    \/ \E w \in Words, def \in Definitions : Update(w, def)
    \/ \E w \in Words : Delete(w)

\* ---------------------------------------------------------- Wallet: operations
ErrInsufficientFunds == "cannot withdraw, insufficient funds"

\* the values of type Bitcoin, an int of IntBits bits in two's complement
MinInt == -(2 ^ (IntBits - 1))
MaxInt == 2 ^ (IntBits - 1) - 1
Bitcoin == MinInt..MaxInt

\* the int that the arithmetic of the machine gives for the integer x
Wrap(x) == ((x - MinInt) % (2 ^ IntBits)) + MinInt

WalletFrame == UNCHANGED <<cwVars, ctrVars, raceVars, cdVars, dictVars,
    walkVars, chanVars, satVars>>

\* wallet := Wallet{}
WalletIdle ==
    /\ balance = 0
    /\ walletOp = "Wallet{}"
    /\ amount = 0
    /\ walletGot = 0
    /\ walletErr = nil
    /\ balancePrev = 0

\* wallet := Wallet{} or wallet := Wallet{balance: n}
WalletInit ==
    /\ balance \in Bitcoin
    /\ walletOp = (IF balance = 0 THEN "Wallet{}" ELSE "Wallet{balance}")
    /\ amount = 0
    /\ walletGot = 0
    /\ walletErr = nil
    /\ balancePrev = balance

\* a method is called on the Wallet and runs to its return
WalletCalled(name, amt) ==
    /\ walletOp' = name
    /\ amount' = amt
    /\ balancePrev' = balance
    /\ WalletFrame

DepositSubtracts(amt) ==
    /\ WalletCalled("Deposit", amt)
    /\ balance' = Wrap(balance - amt)
    /\ walletErr' = nil
    /\ walletGot' = 0

\* w.balance += amount
Deposit(amt) ==
    /\ WalletCalled("Deposit", amt)
    /\ balance' = Wrap(balance + amt)
    /\ walletErr' = nil
    /\ walletGot' = 0

\* return w.balance
Balance ==
    /\ WalletCalled("Balance", 0)
    /\ walletGot' = balance
    /\ walletErr' = nil
    /\ UNCHANGED balance

InsufficientOrAll(amt) == amt >= balance

\* amount > w.balance
Insufficient(amt) == amt > balance

WithdrawUnchecked(amt) ==
    /\ WalletCalled("Withdraw", amt)
    /\ balance' = Wrap(balance - amt)
    /\ walletErr' = nil
    /\ walletGot' = 0

\* w.Withdraw(amount)
Withdraw(amt) ==
    /\ WalletCalled("Withdraw", amt)
    /\ IF Insufficient(amt)
       THEN walletErr' = ErrInsufficientFunds /\ UNCHANGED balance
       ELSE walletErr' = nil /\ balance' = Wrap(balance - amt)
    /\ walletGot' = 0

Wallet ==
    \/ \E amt \in Bitcoin : Deposit(amt)
    \/ Balance
    \/ \E amt \in Bitcoin : Withdraw(amt)

\* ------------------------------------------------------------ walk: operations
\* a Go value as reflect sees it: its kind, the string of a string, the field
\* names of a struct or the keys of a map, and the fields, the elements, the
\* map values or the pointee
Val(k, s, ks, es) == [kind |-> k, str |-> s, keys |-> ks, elems |-> es]

StringValue(s) == Val("string", s, <<>>, <<>>)
IntValue == Val("int", "", <<>>, <<>>)
Struct(names, es) == Val("struct", "", names, es)
Slice(es) == Val("slice", "", <<>>, es)
Array(es) == Val("array", "", <<>>, es)
Map(ks, es) == Val("map", "", ks, es)
Pointer(v) == Val("ptr", "", <<>>, <<v>>)
NilPointer == Val("ptr", "", <<>>, <<>>)
\* the zero reflect.Value
Invalid == Val("invalid", "", <<>>, <<>>)

\* the field names of the structs: the first n names, the k-th one unexported
Exported == <<"Name", "City", "Age", "Profile">>
Unexported == <<"name", "city", "age", "profile">>
FieldName(j, k) ==
    LET n == IF j <= Len(Exported) THEN j ELSE Len(Exported)
    IN  IF j = k THEN Unexported[n] ELSE Exported[n]
FieldNames(n, k) == [j \in 1..n |-> FieldName(j, k)]
IsExported(name) == \E j \in 1..Len(Exported) : name = Exported[j]

\* the strings of the struct tests and of the map tests, and the map keys
Strings == {"Chris", "London"}
MapStrings == {"Go", "BackOps"}
MapKeyNames == <<"Love language", "Love life", "Love story", "Love">>

\* the sequences of at most MaxFields members of S
SeqsOf(S) == UNION {[1..n -> S] : n \in 0..MaxFields}

Leaves == {StringValue(s) : s \in Strings} \cup {IntValue}

\* Profile{33, "London"}
Profiles == {Struct(<<"Age", "City">>, <<IntValue, StringValue(s)>>) : s \in Strings}

\* what a field, an element or a map value holds
Members ==
    Leaves \cup Profiles
    \cup {Pointer(StringValue("Chris")), Pointer(Pointer(StringValue("London"))),
          NilPointer}

Structs ==
    {Struct(FieldNames(Len(es), k), es) : es \in SeqsOf(Members), k \in 0..MaxFields}
Slices == {Slice(es) : es \in SeqsOf(Members)}
Arrays == {Array(es) : es \in SeqsOf(Members)}
MapMembers == {StringValue(s) : s \in MapStrings} \cup {IntValue}
Maps ==
    {Map([j \in 1..Len(es) |-> MapKeyNames[IF j <= Len(MapKeyNames) THEN j ELSE Len(MapKeyNames)]], es) :
        es \in SeqsOf(MapMembers)}

Values == Members \cup Structs \cup Slices \cup Arrays \cup Maps

\* the x handed to walk: a value or a pointer to one
Inputs == Values \cup {Pointer(v) : v \in Values}

WalkFrame ==
    UNCHANGED <<cwVars, ctrVars, raceVars, cdVars, dictVars, walletVars, chanVars,
                satVars>>

\* the test of a specification that does not call walk
WalkIdle ==
    /\ input = IntValue
    /\ walkStack = <<>>
    /\ walkGot = <<>>
    /\ walkPC = "idle"

\* var got []string, before walk(test.Input, ...)
WalkInit ==
    /\ input \in Inputs
    /\ walkStack = <<>>
    /\ walkGot = <<>>
    /\ walkPC = "idle"

\* val := reflect.ValueOf(x); a pointer is replaced by what it points to
getValue(v) ==
    IF v.kind = "ptr"
    THEN IF v.elems = <<>> THEN Invalid ELSE v.elems[1]
    ELSE v

\* the permutations of 1..n
Perms(n) == {p \in [1..n -> 1..n] : \A j, k \in 1..n : p[j] = p[k] => j = k}

\* val.MapKeys(): the keys in an unspecified order, as indices into keys
MapKeys(val) == Perms(Len(val.keys))

\* the ways a call walk(v, fn) can start: val, the loop variable i, and for a
\* map the slice that MapKeys returned
Entered(v) ==
    LET val == getValue(v)
    IN  {[val |-> val, i |-> 0, order |-> o] :
            o \in (IF val.kind = "map" THEN MapKeys(val) ELSE {<<>>})}

Top == walkStack[Len(walkStack)]

\* the stack when the innermost call returns
Popped ==
    SubSeq(walkStack, 1, Len(walkStack) - 1)

PushedSkipNext(f) ==
    Append([walkStack EXCEPT ![Len(walkStack)].i = @ + 2], f)

\* the stack when the innermost call, in its loop, calls walkValue(v)
Pushed(f) ==
    Append([walkStack EXCEPT ![Len(walkStack)].i = @ + 1], f)

Returned(s) ==
    /\ walkStack' = s
    /\ walkPC' = (IF s = <<>> THEN "done" ELSE "running")

\* walk(test.Input, func(input string) { got = append(got, input) })
WalkCall ==
    /\ walkPC = "idle"
    /\ \E f \in Entered(input) : walkStack' = <<f>>
    /\ walkPC' = "running"
    /\ UNCHANGED <<input, walkGot>>
    /\ WalkFrame

\* case reflect.String: fn(val.String())
CallFn ==
    /\ walkPC = "running"
    /\ Top.val.kind = "string"
    /\ walkGot' = Append(walkGot, Top.val.str)
    /\ Returned(Popped)
    /\ UNCHANGED input
    /\ WalkFrame

\* case reflect.Struct: walkValue(val.Field(i)); Interface() panics on a
\* field that is not exported
WalkField ==
    /\ walkPC = "running"
    /\ Top.val.kind = "struct"
    /\ Top.i < Len(Top.val.elems)
    /\ IF IsExported(Top.val.keys[Top.i + 1])
       THEN /\ \E f \in Entered(Top.val.elems[Top.i + 1]) : walkStack' = Pushed(f)
            /\ walkPC' = "running"
       ELSE /\ walkPC' = "panic"
            /\ UNCHANGED walkStack
    /\ UNCHANGED <<input, walkGot>>
    /\ WalkFrame

\* case reflect.Slice, reflect.Array: walkValue(val.Index(i))
WalkIndex ==
    /\ walkPC = "running"
    /\ Top.val.kind \in {"slice", "array"}
    /\ Top.i < Len(Top.val.elems)
    /\ \E f \in Entered(Top.val.elems[Top.i + 1]) : walkStack' = Pushed(f)
    /\ UNCHANGED <<input, walkGot, walkPC>>
    /\ WalkFrame

\* case reflect.Map: walkValue(val.MapIndex(key))
WalkMapIndex ==
    /\ walkPC = "running"
    /\ Top.val.kind = "map"
    /\ Top.i < Len(Top.order)
    /\ \E f \in Entered(Top.val.elems[Top.order[Top.i + 1]]) : walkStack' = Pushed(f)
    /\ UNCHANGED <<input, walkGot, walkPC>>
    /\ WalkFrame

\* the loop of the case is over, or no case matches the kind: walk returns
WalkReturn ==
    /\ walkPC = "running"
    /\ \/ Top.val.kind \in {"struct", "slice", "array"} /\ Top.i >= Len(Top.val.elems)
       \/ Top.val.kind = "map" /\ Top.i >= Len(Top.order)
       \/ Top.val.kind \in {"int", "ptr", "invalid"}
    /\ Returned(Popped)
    /\ UNCHANGED <<input, walkGot>>
    /\ WalkFrame

Walk ==
    \/ WalkCall
    \/ CallFn
    \/ WalkField
    \/ WalkIndex
    \/ WalkMapIndex
    \/ WalkReturn

\* ------------------------------- walk, the version with arrays and maps
\* Profile{33, "London"} and Profile{34, "Ralph"}
LondonAndRalph ==
    <<Struct(<<"Age", "City">>, <<IntValue, StringValue("London")>>),
      Struct(<<"Age", "City">>, <<IntValue, StringValue("Ralph")>>)>>

\* the inputs of the cases "slices" and "arrays"
SliceCases == {Slice(LondonAndRalph), Array(LondonAndRalph)}

\* var got []string, before walk(test.Input, ...)
ArrayMapInit ==
    /\ input \in Inputs \cup SliceCases
    /\ walkStack = <<>>
    /\ walkGot = <<>>
    /\ walkPC = "idle"

\* case reflect.Slice, reflect.Array: walkValue(val.Field(i)); Field panics
\* on a Value whose kind is not Struct
WalkIndexByField ==
    /\ walkPC = "running"
    /\ Top.val.kind \in {"slice", "array"}
    /\ Top.i < Len(Top.val.elems)
    /\ walkPC' = "panic"
    /\ UNCHANGED <<input, walkGot, walkStack>>
    /\ WalkFrame

WalkArrayMap ==
    \/ WalkCall
    \/ CallFn
    \/ WalkField
    \/ WalkIndexByField
    \/ WalkMapIndex
    \/ WalkReturn

\* -------------------------------------------- walk on a channel: operations
\* aChannel as reflect sees it
Chan == Val("chan", "", <<>>, <<>>)

\* the strings of the channel test
ChanStrings == {"Berlin", "Croatia"}

\* what the goroutine sends: Profile{34, "Berlin"}, and a string, a slice and
\* a map for the other cases of walk
ChanMembers ==
    {Struct(<<"Age", "City">>, <<IntValue, StringValue(s)>>) : s \in ChanStrings}
    \cup {StringValue("Berlin"), Slice(<<StringValue("Croatia")>>),
          Map(<<"Love language">>, <<StringValue("Go")>>)}

ChanFrame ==
    UNCHANGED <<cwVars, ctrVars, raceVars, cdVars, dictVars, walletVars, satVars>>

\* no channel is made
ChanIdle ==
    /\ chanCap = 0
    /\ chanBuf = <<>>
    /\ chanClosed = FALSE
    /\ toSend = <<>>
    /\ sendIdx = 0
    /\ willClose = FALSE

\* aChannel := make(chan Profile); go func() {...}(); var got []string
ChanInit ==
    /\ chanCap \in 0..MaxCap
    /\ chanBuf = <<>>
    /\ chanClosed = FALSE
    /\ toSend \in UNION {[1..n -> ChanMembers] : n \in 0..MaxSends}
    /\ sendIdx = 0
    /\ willClose \in BOOLEAN
    /\ input = Chan
    /\ walkStack = <<>>
    /\ walkGot = <<>>
    /\ walkPC = "idle"

\* walk stands at val.Recv()
AtRecv == walkPC = "running" /\ Top.val.kind = "chan"

\* the goroutine stands at a send
AtSend == sendIdx < Len(toSend)

\* aChannel <- v, into the buffer
Send ==
    /\ AtSend
    /\ Len(chanBuf) < chanCap
    /\ chanBuf' = Append(chanBuf, toSend[sendIdx + 1])
    /\ sendIdx' = sendIdx + 1
    /\ UNCHANGED <<chanCap, chanClosed, toSend, willClose, walkVars>>
    /\ ChanFrame

\* close(aChannel), after the last send
Close ==
    /\ ~AtSend
    /\ willClose
    /\ ~chanClosed
    /\ chanClosed' = TRUE
    /\ UNCHANGED <<chanCap, chanBuf, toSend, sendIdx, willClose, walkVars>>
    /\ ChanFrame

\* v, ok := val.Recv() takes the oldest value of the buffer; walkValue(v)
RecvBuffered ==
    /\ AtRecv
    /\ chanBuf # <<>>
    /\ \E f \in Entered(Head(chanBuf)) : walkStack' = Pushed(f)
    /\ chanBuf' = Tail(chanBuf)
    /\ UNCHANGED <<chanCap, chanClosed, toSend, sendIdx, willClose>>
    /\ UNCHANGED <<input, walkGot, walkPC>>
    /\ ChanFrame

\* v, ok := val.Recv() meets the send of the goroutine; walkValue(v)
RecvFromSender ==
    /\ AtRecv
    /\ chanCap = 0
    /\ AtSend
    /\ \E f \in Entered(toSend[sendIdx + 1]) : walkStack' = Pushed(f)
    /\ sendIdx' = sendIdx + 1
    /\ UNCHANGED <<chanCap, chanBuf, chanClosed, toSend, willClose>>
    /\ UNCHANGED <<input, walkGot, walkPC>>
    /\ ChanFrame

RecvEmpty ==
    /\ AtRecv
    /\ chanBuf = <<>>
    /\ Returned(Popped)
    /\ UNCHANGED <<input, walkGot, chanVars>>
    /\ ChanFrame

\* v, ok := val.Recv() on the closed and drained channel: ok is false, break
RecvClosed ==
    /\ AtRecv
    /\ chanClosed
    /\ chanBuf = <<>>
    /\ Returned(Popped)
    /\ UNCHANGED <<input, walkGot, chanVars>>
    /\ ChanFrame

WalkChan ==
    \/ Walk
    \/ Send
    \/ Close
    \/ RecvBuffered
    \/ RecvFromSender
    \/ RecvClosed

\* ----------------------------------------------------- SumAllTails: operations
\* the ints of the slices: a negative one, one of the tests and the greatest
Nums == {-1, 2, MaxInt}

\* the slices of at most MaxNums ints, and the argument lists of at most
\* MaxSlices of them
NumSlices == UNION {[1..n -> Nums] : n \in 0..MaxNums}
ArgLists == UNION {[1..n -> NumSlices] : n \in 0..MaxSlices}

SatFrame ==
    UNCHANGED <<cwVars, ctrVars, raceVars, cdVars, dictVars, walletVars, walkVars,
                chanVars>>

\* SumAllTails is not called
SatIdle ==
    /\ numsToSum = <<>>
    /\ sums = <<>>
    /\ satPC = "idle"
    /\ satIdx = 0
    /\ indexed = {}

\* the arguments of a call of SumAllTails
SatInit ==
    /\ numsToSum \in ArgLists
    /\ sums = <<>>
    /\ satPC = "idle"
    /\ satIdx = 0
    /\ indexed = {}

\* result := 0; for _, numbers := range num { result += numbers }
RECURSIVE SumFrom(_, _, _)
SumFrom(num, j, result) ==
    IF j > Len(num) THEN result
    ELSE SumFrom(num, j + 1, Wrap(result + num[j]))

Sum(num) == SumFrom(num, 1, 0)

tailWhole(numbers) == Sum(numbers)

\* tail := Sum(numbers) - numbers[0]
tail(numbers) == Wrap(Sum(numbers) - numbers[1])

\* SumAllTails(numsToSum...): var sums []int
SumAllTailsCall ==
    /\ satPC = "idle"
    /\ satPC' = "loop"
    /\ sums' = <<>>
    /\ UNCHANGED <<numsToSum, satIdx, indexed>>
    /\ SatFrame

\* one pass of the range loop; numbers[0] of an empty slice would panic
Iterate ==
    /\ satPC = "loop"
    /\ satIdx < Len(numsToSum)
    /\ LET numbers == numsToSum[satIdx + 1] IN
         IF Len(numbers) = 0
         THEN /\ sums' = Append(sums, 0)
              /\ UNCHANGED indexed
         ELSE /\ sums' = Append(sums, tail(numbers))
              /\ indexed' = indexed \cup {satIdx + 1}
    /\ satIdx' = satIdx + 1
    /\ UNCHANGED <<numsToSum, satPC>>
    /\ SatFrame

\* return sums
SumAllTailsReturn ==
    /\ satPC = "loop"
    /\ satIdx >= Len(numsToSum)
    /\ satPC' = "done"
    /\ UNCHANGED <<numsToSum, sums, satIdx, indexed>>
    /\ SatFrame

SumAllTails ==
    \/ SumAllTailsCall
    \/ Iterate
    \/ SumAllTailsReturn

\* ------------------------------------------------------------- specifications
CheckWebsites ==
    \/ SpawnWorker
    \/ SpawnDone
    \/ \E k \in Workers : WorkerCall(k)
    \/ \E k \in Workers : WorkerReturn(k)
    \/ \E k \in Workers : Receive(k)
    \/ Store
    \/ CheckWebsitesReturn

InitCW == CWInit /\ NewCounter /\ RaceIdle /\ CdInit /\ DictIdle /\ WalletIdle
    /\ WalkIdle /\ ChanIdle /\ SatIdle

SpecCW == InitCW /\ [][CheckWebsites]_vars

InitCounter == NewCounter /\ CWIdle /\ RaceIdle /\ CdInit /\ DictIdle /\ WalletIdle
    /\ WalkIdle /\ ChanIdle /\ SatIdle

SpecCounter == InitCounter /\ [][Counter]_vars

InitRace == RaceInit /\ CWIdle /\ NewCounter /\ CdInit /\ DictIdle /\ WalletIdle
    /\ WalkIdle /\ ChanIdle /\ SatIdle

SpecRace == InitRace /\ [][Race]_vars

InitCountdown == CdInit /\ CWIdle /\ NewCounter /\ RaceIdle /\ DictIdle /\ WalletIdle
    /\ WalkIdle /\ ChanIdle /\ SatIdle

SpecCountdown == InitCountdown /\ [][Countdown]_vars

InitDict == DictInit /\ CWIdle /\ NewCounter /\ RaceIdle /\ CdInit /\ WalletIdle
    /\ WalkIdle /\ ChanIdle /\ SatIdle

SpecDict == InitDict /\ [][Dictionary]_vars

InitWallet == WalletInit /\ CWIdle /\ NewCounter /\ RaceIdle /\ CdInit /\ DictIdle
    /\ WalkIdle /\ ChanIdle /\ SatIdle

SpecWallet == InitWallet /\ [][Wallet]_vars

InitWalk ==
    WalkInit /\ CWIdle /\ NewCounter /\ RaceIdle /\ CdInit /\ DictIdle /\ WalletIdle
    /\ ChanIdle /\ SatIdle

SpecWalk == InitWalk /\ [][Walk]_vars

InitWalkChan ==
    ChanInit /\ CWIdle /\ NewCounter /\ RaceIdle /\ CdInit /\ DictIdle /\ WalletIdle
    /\ SatIdle

SpecWalkChan == InitWalkChan /\ [][WalkChan]_vars

InitSumAllTails ==
    SatInit /\ CWIdle /\ NewCounter /\ RaceIdle /\ CdInit /\ DictIdle /\ WalletIdle
    /\ WalkIdle /\ ChanIdle

SpecSumAllTails == InitSumAllTails /\ [][SumAllTails]_vars

InitWalkArrayMap ==
    ArrayMapInit /\ CWIdle /\ NewCounter /\ RaceIdle /\ CdInit /\ DictIdle
    /\ WalletIdle /\ ChanIdle /\ SatIdle

SpecWalkArrayMap == InitWalkArrayMap /\ [][WalkArrayMap]_vars

\* the goroutines call Inc concurrently, and nothing else
Incs ==
    \/ \E g \in Goroutines : IncCall(g)
    \/ \E g \in Goroutines : Lock(g)
    \/ \E g \in Goroutines : IncRead(g)
    \/ \E g \in Goroutines : IncWrite(g)
    \/ \E g \in Goroutines : Unlock(g)

SpecIncs == InitCounter /\ [][Incs]_vars

\* a step of goroutine g inside a call of Inc
Scheduled(g) == Lock(g) \/ IncRead(g) \/ IncWrite(g) \/ Unlock(g)

\* Fair scheduling: a goroutine that can take a step is eventually run; a
\* goroutine at c.mu.Lock() can take its step when the mutex is free.
FairSpecIncs == SpecIncs /\ \A g \in Goroutines : WF_vars(Scheduled(g))

\* The goroutine that sends and the goroutine in walk are both run.
FairSpecWalkChan == SpecWalkChan /\ WF_vars(WalkChan)

\* A runnable goroutine is eventually run, and every invocation of wc returns.
FairSpecCW == SpecCW /\ WF_vars(CheckWebsites)

\* ----------------------------------------------------- CheckWebsites: claims
Range(s) == {s[k] : k \in 1..Len(s)}

\* how many elements of urls are x
Count(x) == Cardinality({k \in Workers : urls[k] = x})

\* how many workers whose element is x have invoked wc
Invoked(x) == Cardinality({k \in Workers :
                  urls[k] = x /\ wPC[k] \in {"inwc", "send", "done"}})

\* C1: wc is invoked exactly once for each element of urls in every
\* interleaving: at any moment the invocations with argument x are those of the
\* workers of the elements equal to x that have reached their call, every
\* element has a worker once the range loop is over, and at the return wc has
\* been invoked with x as many times as x occurs in urls.
C1_ExactlyOncePerUrl ==
    /\ \A x \in Websites : wcCalls[x] = Invoked(x)
    /\ cwPC /= "spawn" => \A k \in Workers : wPC[k] /= "none"
    /\ cwPC = "returned" => \A x \in Websites : wcCalls[x] = Count(x)

C1_Witness ==
    /\ cwPC = "returned"
    /\ Len(urls) = 3
    /\ urls[1] = urls[3]
    /\ urls[1] /= urls[2]
    /\ wcCalls[urls[1]] = 2
    /\ wcCalls[urls[2]] = 1

\* C2: the returned map has exactly the distinct elements of urls as keys and
\* maps each key x to wc(x); a worker sends its own element's URL, so at no
\* moment is a result recorded under another URL's key.
C2_ResultsAreChecks ==
    /\ \A x \in DOMAIN results : x \in Range(urls) /\ results[x] = wc[x]
    /\ \A k \in Workers : wPC[k] \in {"inwc", "send", "done"} => wSend[k][1] = urls[k]
    /\ \A k \in Workers : wPC[k] \in {"send", "done"} => wSend[k][2] = wc[urls[k]]
    /\ cwPC = "returned" => DOMAIN results = Range(urls)

C2_Witness ==
    /\ cwPC = "returned"
    /\ Len(urls) = 3
    /\ DOMAIN results = Websites
    /\ \E x, y \in Websites : results[x] /\ ~results[y]

\* C3: CheckWebsites returns only after exactly len(urls) receives: never more
\* than len(urls) receives happen, and at the return len(urls) have happened
\* and every worker has completed its send.
C3_ReturnsAfterLenReceives ==
    /\ nRecv <= Len(urls)
    /\ cwPC = "returned" =>
          /\ nRecv = Len(urls)
          /\ \A k \in Workers : wPC[k] = "done"

C3_Witness ==
    /\ cwPC = "returned"
    /\ nRecv = 3
    /\ \A k \in Workers : wPC[k] = "done"

\* the caller waits in the receive with no sender ready
CallerBlocked ==
    cwPC = "recv" /\ RecvLoopCond /\ \A k \in Workers : wPC[k] /= "send"

\* C4: when every invocation of wc returns, CheckWebsites eventually returns;
\* at the return all results are collected and no worker is left blocked on
\* the channel; for an empty urls no worker exists, the caller never blocks
\* and the map returned is empty.
C4_EventuallyReturns ==
    /\ <>(cwPC = "returned")
    /\ [](cwPC = "returned" =>
            /\ DOMAIN results = Range(urls)
            /\ \A k \in Workers : wPC[k] \notin {"start", "inwc", "send"})
    /\ [](urls = <<>> =>
            /\ ~CallerBlocked
            /\ Live = 0
            /\ results = [x \in {} |-> FALSE])

C4_Witness ==
    /\ cwPC = "returned"
    /\ Len(urls) >= 2
    /\ DOMAIN results = Range(urls)
    /\ Live = 0

\* C5: worker concurrency is not bounded: while the range loop runs its next
\* go statement can always be taken, whatever the earlier workers are doing;
\* every worker started so far is still live and nothing has been received.
C5_NoBoundOnWorkers ==
    cwPC = "spawn" =>
        /\ i <= Len(urls) => ENABLED SpawnWorker
        /\ \A k \in Workers :
              IF k < i THEN wPC[k] \in {"start", "inwc", "send"} ELSE wPC[k] = "none"
        /\ nRecv = 0

\* all len(urls) workers are inside wc at once and nothing has been received
C5_Witness ==
    /\ Len(urls) = 3
    /\ \A k \in Workers : wPC[k] = "inwc"
    /\ nRecv = 0


\* ----------------------------------------------------------- Counter: claims
InInc(g) == cPC[g] \in {"lock", "read", "write", "unlock"}

\* C6: once n calls of Inc have all returned and none is running, Value()
\* returns exactly n, in every interleaving of the calls; at any moment the
\* integer counts every Inc that has returned and no more than the Incs called.
C6_ValueIsNumberOfIncs ==
    /\ (\A g \in Goroutines : ~InInc(g)) => Value = incReturned
    /\ incReturned <= Value
    /\ Value <= incStarted

C6_Witness ==
    /\ \A g \in Goroutines : ~InInc(g)
    /\ incReturned = 3
    /\ \E g \in Goroutines : cPC[g] = "value"
    /\ Value = 3

\* C7: every access to the integer, the update in Inc and the read in Value,
\* is made by a goroutine that holds the mutex, so no Value call is at its read
\* while an Inc is between its read and its write of the integer.
C7_EveryAccessHoldsMutex ==
    /\ \A g \in Goroutines : cPC[g] \in {"read", "write", "value"} => mu = g
    /\ ~ \E g, h \in Goroutines : cPC[g] = "value" /\ cPC[h] = "write"

\* ------------------------------------------------------------- Racer: claims
Completed(p) == p.st = "closed"

Waiting == rPC \in {"select", "parked", "chosen", "returned"}

\* the step in which the select takes its case: on looking at its cases, or
\* woken while blocked
Choice == rPC \in {"select", "parked"} /\ rPC' = "chosen"

\* request c ("a" or "b") completed strictly before the other one, or the
\* other one has not completed, and before the timeout elapsed
CompletedFirst(c, p) ==
    /\ Completed(p)
    /\ first = c
    /\ p.done < timer.ready

NotInTime(p) == ~Completed(p) \/ p.done >= timer.ready

\* C9 as stated: when neither request completes before the timeout elapses the
\* result is the empty string and a non-nil error; Racer calls with the timeout
\* of ten seconds.
C9_TimeoutReturnsError ==
    /\ (rPC = "returned" /\ NotInTime(pingA) /\ NotInTime(pingB)) =>
          winner = "" /\ err /= "nil"
    /\ viaRacer => timeout = tenSecondTimeout

\* C9 as amended: when neither request has completed at the moment the select
\* takes its case, the result is the empty string and a non-nil error, and the
\* timeout has elapsed by then; an error is only ever returned with the empty
\* string, after the timer fired; Racer calls with ten seconds.
C9_TimeoutWhenNoneCompleted ==
    /\ [][(Choice /\ ~Completed(pingA') /\ ~Completed(pingB'))
              => (fired' = "timeout" /\ now >= timer.ready)]_vars
    /\ []((rPC = "returned" /\ fired = "timeout") =>
            winner = "" /\ err = TimedOut(a, b))
    /\ []((rPC = "returned" /\ err /= "nil") =>
            /\ winner = ""
            /\ timer.st = "fired"
            /\ timer.done >= timer.ready)
    /\ [](viaRacer => timeout = tenSecondTimeout)

\* Racer timed out after ten seconds with neither request completed
C9_Witness ==
    /\ rPC = "returned"
    /\ viaRacer
    /\ winner = ""
    /\ err = TimedOut(a, b)
    /\ ~Completed(pingA)
    /\ ~Completed(pingB)
    /\ now >= tenSecondTimeout

\* --------------------------------------------------------- Countdown: claims
SleepsIn(s) == Cardinality({k \in 1..Len(s) : s[k] = sleep})

\* C10: Countdown's operations are, in order, write, sleep, write, sleep,
\* write, sleep, write: at every moment the operations made so far are a
\* prefix of that sequence, and at the return they are all of it, with
\* exactly countdownStart sleeps and none after the last write; the spies of
\* the tests record the same.
C10_WriteSleepOrder ==
    LET order == <<write, sleep, write, sleep, write, sleep, write>>
    IN  /\ Len(ops) <= Len(order)
        /\ ops = SubSeq(order, 1, Len(ops))
        /\ cdPC = "done" =>
              /\ ops = order
              /\ SleepsIn(ops) = countdownStart
              /\ ops[Len(ops)] = write
              /\ (outKind = "spy" /\ sleeperKind = "SpyCountDownOperations") => Calls = order
              /\ sleeperKind = "SpySleeper" => spySleeperCalls = 3

C10_Witness ==
    /\ cdPC = "done"
    /\ outKind = "spy"
    /\ sleeperKind = "SpyCountDownOperations"
    /\ Calls = <<write, sleep, write, sleep, write, sleep, write>>

\* C11: Countdown of mocking/main.go writes to out exactly "3\n2\n1\nGo!": the
\* numbers from countdownStart down to 1, each followed by a newline, then
\* finalWord with nothing after it; what is in the buffer before the return is
\* the part of that text written so far.
C11_PrintsThreeToGo ==
    (version = "mocking" /\ outKind = "buffer") =>
        /\ cdPC = "done" => buffer = "3\n2\n1\nGo!"
        /\ (cdPC = "sleep" /\ count = 3) => buffer = "3\n"
        /\ (cdPC = "sleep" /\ count = 2) => buffer = "3\n2\n"
        /\ (cdPC = "sleep" /\ count = 1) => buffer = "3\n2\n1\n"
        /\ (cdPC = "loop" /\ count = 0) => buffer = "3\n2\n1\n"

C11_Witness ==
    /\ cdPC = "done"
    /\ version = "mocking"
    /\ outKind = "buffer"
    /\ buffer = "3\n2\n1\nGo!"
    /\ Len(ops) = 7

\* ------------------------------------------------------- Dictionary: claims
\* C12: Search(word) returns the stored definition and a nil error when word
\* is a key of the dictionary, the empty string and ErrNotFound when it is
\* not, and leaves the dictionary as it was.
C12_SearchFindsOrErrNotFound ==
    dictOp = "Search" =>
        /\ word \in DOMAIN dictPrev =>
              dictGot = dictPrev[word] /\ dictErr = nil
        /\ word \notin DOMAIN dictPrev =>
              dictGot = "" /\ dictErr = ErrNotFound
        /\ dict = dictPrev

C12_Witness ==
    /\ dictOp = "Search"
    /\ word = "test"
    /\ "unknown" \notin DOMAIN dict
    /\ dictGot = "this is just a test"
    /\ dictErr = nil

\* C13, as stated: Add(word, definition) never overwrites. When word is
\* absent it stores definition and returns nil, so that Search(word) then
\* returns definition; when word is present it returns ErrWordExists and
\* leaves the dictionary unchanged.
C13_AddStoresOrErrWordExists ==
    dictOp = "Add" =>
        /\ word \notin DOMAIN dictPrev =>
              dictErr = nil /\ Search(dict, word) = <<definition, nil>>
        /\ word \in DOMAIN dictPrev =>
              dictErr = ErrWordExists /\ dict = dictPrev

\* C13, amended: the same for a Dictionary that is not nil; every entry the
\* dictionary had keeps its definition. On the nil Dictionary every word is
\* absent and Add panics at the assignment, storing nothing.
C13_AddNeverOverwrites ==
    dictOp = "Add" =>
        /\ \A x \in DOMAIN dictPrev : x \in DOMAIN dict /\ dict[x] = dictPrev[x]
        /\ (word \notin DOMAIN dictPrev /\ ~dictNil) =>
              /\ dictErr = nil
              /\ Search(dict, word) = <<definition, nil>>
              /\ DOMAIN dict = DOMAIN dictPrev \cup {word}
        /\ word \in DOMAIN dictPrev =>
              dictErr = ErrWordExists /\ dict = dictPrev
        /\ dictNil => dictErr = panic /\ dict = dictPrev

C13_Witness ==
    /\ dictOp = "Add"
    /\ ~dictNil
    /\ word = "unknown"
    /\ DOMAIN dictPrev = {"test"}
    /\ definition = "new test"
    /\ dictErr = nil
    /\ dict["unknown"] = "new test"

\* C14: Update(word, definition) never inserts. When word is present it
\* replaces the definition and returns nil, the other entries staying as they
\* were; when word is absent it returns ErrWordDoesNotExists, the dictionary
\* is unchanged and Search(word) still returns ErrNotFound.
C14_UpdateNeverInserts ==
    dictOp = "Update" =>
        /\ DOMAIN dict = DOMAIN dictPrev
        /\ word \in DOMAIN dictPrev =>
              /\ dictErr = nil
              /\ Search(dict, word) = <<definition, nil>>
              /\ \A x \in DOMAIN dictPrev \ {word} : dict[x] = dictPrev[x]
        /\ word \notin DOMAIN dictPrev =>
              /\ dictErr = ErrWordDoesNotExists
              /\ dict = dictPrev
              /\ Search(dict, word) = <<"", ErrNotFound>>

C14_Witness ==
    /\ dictOp = "Update"
    /\ word = "test"
    /\ "test" \in DOMAIN dictPrev
    /\ dictPrev["test"] = "this is just a test"
    /\ definition = "new test"
    /\ dictErr = nil
    /\ dict["test"] = "new test"

\* C15: after Delete(word), Search(word) returns ErrNotFound, whether word
\* was present or not; Delete reports no error, every other entry is as it
\* was, and a second Delete(word) changes nothing more.
C15_DeleteRemovesOnlyWord ==
    dictOp = "Delete" =>
        /\ Search(dict, word) = <<"", ErrNotFound>>
        /\ dictErr = nil
        /\ DOMAIN dict = DOMAIN dictPrev \ {word}
        /\ \A x \in DOMAIN dictPrev \ {word} : dict[x] = dictPrev[x]
        /\ delete(dict, word) = dict

C15_Witness ==
    /\ dictOp = "Delete"
    /\ word = "test"
    /\ DOMAIN dictPrev = {"test", "unknown"}
    /\ DOMAIN dict = {"unknown"}
    /\ dict["unknown"] = dictPrev["unknown"]

\* ----------------------------------------------------------- Wallet: claims
\* C16: Withdraw(amount) with amount greater than the balance returns
\* ErrInsufficientFunds and leaves the balance unchanged.
C16_WithdrawInsufficientFunds ==
    (walletOp = "Withdraw" /\ amount > balancePrev) =>
        walletErr = ErrInsufficientFunds /\ balance = balancePrev

C16_Witness ==
    /\ walletOp = "Withdraw"
    /\ balancePrev = 2
    /\ amount = 10
    /\ walletErr = ErrInsufficientFunds
    /\ balance = 2

\* C17, as stated: Withdraw(amount) with amount at most the balance, the
\* case amount = balance included, returns nil and reduces the balance by
\* exactly amount.
C17_WithdrawReducesByAmount ==
    (walletOp = "Withdraw" /\ amount <= balancePrev) =>
        walletErr = nil /\ balance = balancePrev - amount

\* C17, amended: it returns nil and the balance becomes balance - amount in
\* the arithmetic of int. That is exactly balance - amount whenever amount is
\* not negative; for a negative amount the balance grows, and wraps around
\* when balance - amount is more than the greatest int.
C17_WithdrawSubtractsInt ==
    (walletOp = "Withdraw" /\ amount <= balancePrev) =>
        /\ walletErr = nil
        /\ balance = Wrap(balancePrev - amount)
        /\ amount >= 0 => balance = balancePrev - amount
        /\ balancePrev - amount <= MaxInt => balance = balancePrev - amount

C17_Witness ==
    /\ walletOp = "Withdraw"
    /\ balancePrev = 10
    /\ amount = 10
    /\ walletErr = nil
    /\ balance = 0

\* C18, as stated: Deposit(amount) increases the balance that Balance()
\* reports by exactly amount and never fails; a new Wallet has balance 0 and
\* Deposit(10) makes it 10.
C18_DepositAddsAmount ==
    /\ walletOp = "Deposit" => walletErr = nil /\ balance = balancePrev + amount
    /\ walletOp = "Wallet{}" => balance = 0
    /\ walletOp = "Balance" => walletGot = balance

\* C18, amended: Deposit(amount) never fails and the balance becomes
\* balance + amount in the arithmetic of int: exactly balance + amount when
\* that sum is an int, wrapped around when it is not. Balance() reports the
\* balance; a new Wallet has balance 0 and Deposit(10) makes it 10.
C18_DepositAddsInt ==
    /\ walletOp = "Deposit" =>
          /\ walletErr = nil
          /\ balance = Wrap(balancePrev + amount)
          /\ balancePrev + amount \in Bitcoin => balance = balancePrev + amount
          /\ (balancePrev = 0 /\ amount = 10) => balance = 10
    /\ walletOp = "Wallet{}" => balance = 0
    /\ walletOp = "Balance" => walletGot = balance /\ balance = balancePrev

C18_Witness ==
    /\ walletOp = "Deposit"
    /\ balancePrev = 0
    /\ amount = 10
    /\ balance = 10
    /\ walletErr = nil

\* ------------------------------------------------------------- walk: claims
IsPrefix(s, t) == Len(s) <= Len(t) /\ s = SubSeq(t, 1, Len(s))

RECURSIVE HasMap(_)
HasMap(v) ==
    \/ v.kind = "map"
    \/ \E j \in 1..Len(v.elems) : HasMap(v.elems[j])

RECURSIVE Flatten(_)
Flatten(ss) == IF ss = <<>> THEN <<>> ELSE Head(ss) \o Flatten(Tail(ss))

\* the strings under v, depth-first: struct fields, slice and array elements
RECURSIVE Descend(_)
Descend(v) ==
    IF v.kind = "string" THEN <<v.str>>
    ELSE IF v.kind \in {"struct", "slice", "array"}
    THEN Flatten([j \in 1..Len(v.elems) |-> Descend(v.elems[j])])
    ELSE <<>>

\* the same with one level of pointer followed at v and at every field and
\* element, up to the first struct field that is not exported
RECURSIVE Reach(_), ReachFrom(_, _)
Reach(v) ==
    LET val == IF v.kind = "ptr" /\ v.elems # <<>> THEN v.elems[1] ELSE v
    IN  IF val.kind = "string" THEN [calls |-> <<val.str>>, panics |-> FALSE]
        ELSE IF val.kind \in {"struct", "slice", "array"} THEN ReachFrom(val, 1)
        ELSE [calls |-> <<>>, panics |-> FALSE]
ReachFrom(val, j) ==
    IF j > Len(val.elems) THEN [calls |-> <<>>, panics |-> FALSE]
    ELSE IF val.kind = "struct" /\ ~IsExported(val.keys[j])
    THEN [calls |-> <<>>, panics |-> TRUE]
    ELSE LET h == Reach(val.elems[j])
         IN  IF h.panics THEN h
             ELSE LET t == ReachFrom(val, j + 1)
                  IN  [calls |-> h.calls \o t.calls, panics |-> t.panics]

MapValueStrings(v) ==
    Flatten([j \in 1..Len(v.elems) |->
                IF v.elems[j].kind = "string" THEN <<v.elems[j].str>> ELSE <<>>])

\* the number of times s occurs in the sequence t
Occurrences(s, t) == Cardinality({j \in 1..Len(t) : t[j] = s})

\* C20: for a map input walk calls fn exactly once per string value, never
\* for a key, and the calls come in a fixed order, the same on every run:
\* for {"Love language": "Go", "Love life": "BackOps"} they are exactly
\* <<"Go", "BackOps">>.
C20_MapCallsInFixedOrder ==
    (input.kind = "map" /\ walkPC = "done") =>
        /\ walkGot = MapValueStrings(input)
        /\ input.keys = <<"Love language", "Love life">>
              /\ input.elems = <<StringValue("Go"), StringValue("BackOps")>>
              => walkGot = <<"Go", "BackOps">>

\* what does hold for a map input: one call for each string value, in some
\* order, and none for a key
MapCallsInSomeOrder ==
    (input.kind = "map" /\ walkPC = "done") =>
        /\ \A s \in MapStrings :
              Occurrences(s, walkGot) = Occurrences(s, MapValueStrings(input))
        /\ Len(walkGot) = Len(MapValueStrings(input))
        /\ \A j \in 1..Len(walkGot), k \in 1..Len(input.keys) :
              walkGot[j] # input.keys[k]

\* ------------------------------------------------ walk on a channel: claims
\* the strings walk calls fn with for one received value
ChanCalls(v) == IF v.kind = "map" THEN MapValueStrings(v) ELSE Reach(v).calls

\* the calls for the first n values the goroutine sends
CallsForSent(n) == Flatten([j \in 1..n |-> ChanCalls(toSend[j])])

\* C21: for a channel input walk receives values until the channel is
\* closed and calls fn on the strings of each received value in the order
\* the values were sent; it returns once the close is observed, so it never
\* returns while the channel is open and, when the sender closes, it
\* eventually returns with the calls for everything sent. A sender of
\* Profile{34, "Berlin"} and Profile{33, "Croatia"} that closes yields
\* exactly <<"Berlin", "Croatia">>.
C21_ReceivesUntilClosed ==
    /\ [](input.kind = "chan" =>
            /\ IsPrefix(walkGot, CallsForSent(sendIdx))
            /\ walkPC # "panic"
            /\ ~chanClosed => walkPC # "done"
            /\ walkPC = "done" =>
                  /\ chanClosed
                  /\ chanBuf = <<>>
                  /\ walkGot = CallsForSent(Len(toSend))
            /\ (/\ walkPC = "done"
                /\ toSend = <<Struct(<<"Age", "City">>, <<IntValue, StringValue("Berlin")>>),
                              Struct(<<"Age", "City">>, <<IntValue, StringValue("Croatia")>>)>>)
                  => walkGot = <<"Berlin", "Croatia">>)
    /\ [](input.kind = "chan" /\ willClose => <>(walkPC = "done"))

C21_Witness ==
    /\ walkPC = "done"
    /\ input.kind = "chan"
    /\ chanCap = 0
    /\ chanClosed
    /\ Len(toSend) = 2
    /\ walkGot = <<"Berlin", "Croatia">>

\* ------------------------------------------------------ SumAllTails: claims
\* the sum of the integers of num, in the integers
RECURSIVE ExactSum(_)
ExactSum(num) == IF num = <<>> THEN 0 ELSE Head(num) + ExactSum(Tail(num))

\* C22: SumAllTails returns one value per input slice, in argument order:
\* for a non-empty slice the sum of its elements but the first, which is
\* Sum(numbers[1:]), and 0 for an empty slice, whose numbers[0] is never
\* read.
C22_SumAllTailsSumsTails ==
    /\ satPC \in {"loop", "done"} =>
          /\ Len(sums) = satIdx
          /\ \A j \in 1..satIdx :
                IF numsToSum[j] = <<>>
                THEN sums[j] = 0
                ELSE /\ sums[j] = Sum(Tail(numsToSum[j]))
                     /\ sums[j] = Wrap(ExactSum(Tail(numsToSum[j])))
    /\ satPC = "done" => Len(sums) = Len(numsToSum)
    /\ \A j \in indexed : numsToSum[j] # <<>>

C22_Witness ==
    /\ satPC = "done"
    /\ numsToSum = << <<>>, <<MaxInt, 2>> >>
    /\ sums = <<0, 2>>
    /\ indexed = {2}

\* ------------------------- walk, the version with arrays and maps: claims
\* C23: in the version of walk with arrays and maps, walking a slice or an
\* array of structs completes without failing and calls fn with the string
\* fields of each element in index order: the slice and the array of
\* Profile{33, "London"} and Profile{34, "Ralph"} both yield exactly
\* <<"London", "Ralph">>.
C23_SlicesAndArraysWalked ==
    input.kind \in {"slice", "array"} =>
        /\ walkPC # "panic"
        /\ walkPC = "done" => walkGot = Reach(input).calls
        /\ (walkPC = "done" /\ input \in SliceCases) => walkGot = <<"London", "Ralph">>

\* what happens instead: Field panics at the first element, before any call
\* of fn, so only a slice or an array without elements is walked to the end
SlicesAndArraysPanic ==
    input.kind \in {"slice", "array"} =>
        /\ walkGot = <<>>
        /\ walkPC = "done" => input.elems = <<>>
        /\ walkPC = "panic" => input.elems # <<>>

InCritical(g) == cPC[g] \in {"read", "write", "unlock"}

\* C25: at most one goroutine is inside the critical section of Inc at any
\* time; the mutex is held exactly by the goroutine inside it, so that Inc
\* has released the mutex when it has returned; and under fair scheduling
\* every call of Inc eventually returns, however many goroutines call Inc
\* concurrently.
C25_IncExcludesAndReturns ==
    /\ [](\A g, h \in Goroutines : InCritical(g) /\ InCritical(h) => g = h)
    /\ [](\A g \in Goroutines : InCritical(g) <=> mu = g)
    /\ \A g \in Goroutines : InInc(g) ~> ~InInc(g)

C25_Witness ==
    /\ \E g \in Goroutines :
          /\ cPC[g] = "write"
          /\ \A h \in Goroutines \ {g} : cPC[h] = "lock"
    /\ incReturned = 0
====
